---- MODULE Spec2Model ----
(***************************************************************************)
(* Model of the Honeycomb telemetry sink and its identifier types.        *)
(*                                                                         *)
(*   Spec    the sink: threads calling report_span / report_event on one  *)
(*           HoneycombTelemetry, the mutex around the libhoney client,    *)
(*           the sampling predicate, send failures and panics.            *)
(*   SpecId  the identifiers: SpanId and TraceId construction, Display    *)
(*           and FromStr, applied to inputs drawn from bounded sets.      *)
(***************************************************************************)
EXTENDS Integers, Sequences, FiniteSets, TLC

VARIABLES
    sample_rate,      \* HoneycombTelemetry.sample_rate : Option<u128>
    use_parking_lot,  \* cargo feature "use_parking_lot" of the build
    holder,           \* thread owning the MutexGuard of honeycomb_client, 0 = unlocked
    poisoned,         \* poison flag of std::sync::Mutex
    th,               \* per thread: position in report_span/report_event and its locals
    handed,           \* trace ids of the events passed to ev.send(&mut client)
    skipped,          \* trace ids of the calls that returned without a send
    aborted,          \* trace ids of the calls that unwound before ev.send
    stderr,           \* the distinct diagnostic lines written by eprintln!
    idpc,             \* identifier pipeline: position
    raw,              \* identifier pipeline: the input drawn in Init
    ident,            \* identifier pipeline: the constructed SpanId / TraceId
    text,             \* identifier pipeline: the text handed to from_str
    parsed            \* identifier pipeline: what from_str produced

sinkVars == <<sample_rate, use_parking_lot, holder, poisoned, th,
              handed, skipped, aborted, stderr>>
idVars == <<idpc, raw, ident, text, parsed>>
vars == <<sample_rate, use_parking_lot, holder, poisoned, th,
          handed, skipped, aborted, stderr, idpc, raw, ident, text, parsed>>

(***************************************************************************)
(* Bounds of the model.                                                    *)
(***************************************************************************)
NumThreads == 2
MaxTrace == 1
MaxRate == 2
MaxLen == 3

Threads == 1..NumThreads
TraceIds == 0..MaxTrace

None == <<>>
Some(x) == <<x>>
Rates == {None} \cup {Some(d) : d \in 0..MaxRate}

(***************************************************************************)
(* The sink.                                                               *)
(***************************************************************************)
\* The locals of one call; a thread outside a call holds NoCall.
NoCall == [pc |-> "idle", trace |-> 0, kind |-> "none",
           news |-> 0, adds |-> 0, sends |-> 0, res |-> "none", diag |-> 0,
           fault |-> "none"]

Panicked(f) == [NoCall EXCEPT !.pc = "panicked", !.fault = f]

Critical == {"new_event", "add", "send", "check_res", "drop"}

DiagLine == "error sending event to honeycomb"

\* HoneycombTelemetry::new stores whatever sample rate it is given and wraps
\* the fresh client in an unlocked, unpoisoned mutex.
new(sr) == [sample_rate |-> sr, holder |-> 0, poisoned |-> FALSE]

\* One sink, built from any sample rate, in either build of the crate.
SinkInit ==
    /\ \E sr \in Rates :
          /\ sample_rate = new(sr).sample_rate
          /\ holder = new(sr).holder
          /\ poisoned = new(sr).poisoned
    /\ use_parking_lot \in BOOLEAN
    /\ th = [t \in Threads |-> NoCall]
    /\ handed = {}
    /\ skipped = {}
    /\ aborted = {}
    /\ stderr = {}

\* Entry into report_span / report_event with a span / event of trace tr.
enter(t, tr, k) ==
    /\ th[t].pc = "idle"
    /\ th' = [th EXCEPT ![t] = [NoCall EXCEPT !.pc = "should_report",
                                              !.trace = tr, !.kind = k]]
    /\ UNCHANGED <<sample_rate, use_parking_lot, holder, poisoned,
                   handed, skipped, aborted, stderr>>

report_span(t, tr) == enter(t, tr, "span")

report_event_unsampled(t, tr) ==
    /\ th[t].pc = "idle"
    /\ th' = [th EXCEPT ![t] = [NoCall EXCEPT !.pc = "lock", !.trace = tr]]
    /\ UNCHANGED <<sample_rate, use_parking_lot, holder, poisoned,
                   handed, skipped, aborted, stderr>>

report_event(t, tr) == enter(t, tr, "event")

should_report_always(sr, tr) == "true"

\* The outcome of should_report: "true", "false", or "panic" for the
\* remainder by zero (u128 % 0 panics in every build profile).  trace_id.0 is
\* the numeric id, as in TraceId(pub(crate) u128); the tagged TraceIdInner
\* has no remainder.
should_report_value(sr, tr) ==
    IF sr = None THEN "true"
    ELSE IF sr[1] = 0 THEN "panic"
    ELSE IF tr % sr[1] = 0 THEN "true" ELSE "false"

\* if self.should_report(trace_id) { let data = .._to_values(..); self.report_data(data) }
\* A false outcome returns at once; the span / event is consumed by *_to_values.
should_report(t) ==
    /\ th[t].pc = "should_report"
    /\ LET v == should_report_value(sample_rate, th[t].trace) IN
         /\ th' = [th EXCEPT ![t] =
                      IF v = "panic" THEN Panicked("rem_by_zero")
                      ELSE IF v = "true" THEN [@ EXCEPT !.pc = "lock", !.kind = "none"]
                      ELSE NoCall]
         /\ skipped' = IF v = "false" THEN skipped \cup {th[t].trace} ELSE skipped
         /\ aborted' = IF v = "panic" THEN aborted \cup {th[t].trace} ELSE aborted
    /\ UNCHANGED <<sample_rate, use_parking_lot, holder, poisoned, handed, stderr>>

lock_no_exclusion(t) ==
    /\ th[t].pc = "lock"
    /\ IF poisoned /\ ~use_parking_lot
         THEN /\ th' = [th EXCEPT ![t] = Panicked("poisoned")]
              /\ aborted' = aborted \cup {th[t].trace}
              /\ holder' = holder
         ELSE /\ th' = [th EXCEPT ![t].pc = "new_event"]
              /\ holder' = t
              /\ aborted' = aborted
    /\ UNCHANGED <<sample_rate, use_parking_lot, poisoned, handed, skipped, stderr>>

lock_recovering(t) ==
    /\ th[t].pc = "lock"
    /\ holder = 0
    /\ th' = [th EXCEPT ![t].pc = "new_event"]
    /\ holder' = t
    /\ poisoned' = FALSE
    /\ UNCHANGED <<sample_rate, use_parking_lot, handed, skipped, aborted, stderr>>

\* self.honeycomb_client.lock(): waits until no other guard is alive.
\* std: lock().unwrap() panics on a poisoned mutex (the guard inside the
\* PoisonError is dropped, the mutex stays poisoned); parking_lot: no poison.
lock(t) ==
    /\ th[t].pc = "lock"
    /\ holder = 0
    /\ IF poisoned /\ ~use_parking_lot
         THEN /\ th' = [th EXCEPT ![t] = Panicked("poisoned")]
              /\ aborted' = aborted \cup {th[t].trace}
              /\ holder' = holder
         ELSE /\ th' = [th EXCEPT ![t].pc = "new_event"]
              /\ holder' = t
              /\ aborted' = aborted
    /\ UNCHANGED <<sample_rate, use_parking_lot, poisoned, handed, skipped, stderr>>

\* let mut ev = client.new_event();
new_event(t) ==
    /\ th[t].pc = "new_event"
    /\ th' = [th EXCEPT ![t].pc = "add", ![t].news = @ + 1]
    /\ UNCHANGED <<sample_rate, use_parking_lot, holder, poisoned,
                   handed, skipped, aborted, stderr>>

\* ev.add(data);
add(t) ==
    /\ th[t].pc = "add"
    /\ th' = [th EXCEPT ![t].pc = "send", ![t].adds = @ + 1]
    /\ UNCHANGED <<sample_rate, use_parking_lot, holder, poisoned,
                   handed, skipped, aborted, stderr>>

\* let res = ev.send(&mut client);  the client answers Ok or Err (buffer full).
send(t) ==
    /\ th[t].pc = "send"
    /\ \E r \in {"Ok", "Err"} :
          th' = [th EXCEPT ![t].pc = "check_res", ![t].sends = @ + 1, ![t].res = r]
    /\ handed' = handed \cup {th[t].trace}
    /\ UNCHANGED <<sample_rate, use_parking_lot, holder, poisoned,
                   skipped, aborted, stderr>>

\* Unwinding out of report_data drops the guard; std marks the mutex poisoned.
unwind(t) ==
    /\ th' = [th EXCEPT ![t] = Panicked("client")]
    /\ holder' = 0
    /\ poisoned' = (poisoned \/ ~use_parking_lot)
    /\ aborted' = IF th[t].sends = 0 THEN aborted \cup {th[t].trace} ELSE aborted

\* A panic inside new_event / add / send of the libhoney client.
client_panic(t) ==
    /\ th[t].pc \in {"new_event", "add", "send"}
    /\ unwind(t)
    /\ UNCHANGED <<sample_rate, use_parking_lot, handed, skipped, stderr>>

check_res_unwrap(t) ==
    /\ th[t].pc = "check_res"
    /\ IF th[t].res = "Err"
         THEN unwind(t)
         ELSE /\ th' = [th EXCEPT ![t].pc = "drop"]
              /\ UNCHANGED <<holder, poisoned, aborted>>
    /\ UNCHANGED <<sample_rate, use_parking_lot, handed, skipped, stderr>>

\* if let Err(err) = res { eprintln!("error sending event to honeycomb, {:?}", err) }
check_res(t) ==
    /\ th[t].pc = "check_res"
    /\ th' = [th EXCEPT ![t].pc = "drop",
                        ![t].diag = IF th[t].res = "Err" THEN @ + 1 ELSE @]
    /\ stderr' = IF th[t].res = "Err" THEN stderr \cup {DiagLine} ELSE stderr
    /\ UNCHANGED <<sample_rate, use_parking_lot, holder, poisoned,
                   handed, skipped, aborted>>

\* End of report_data: the guard goes out of scope and the call returns.
drop_guard(t) ==
    /\ th[t].pc = "drop"
    /\ th' = [th EXCEPT ![t] = NoCall]
    /\ holder' = 0
    /\ skipped' = IF th[t].sends = 0 THEN skipped \cup {th[t].trace} ELSE skipped
    /\ UNCHANGED <<sample_rate, use_parking_lot, poisoned, handed, aborted, stderr>>

IdIdle ==
    /\ idpc = "off"
    /\ raw = <<>>
    /\ ident = <<>>
    /\ text = <<>>
    /\ parsed = <<>>

Init == SinkInit /\ IdIdle

Next ==
    \/ \E t \in Threads, tr \in TraceIds : report_span(t, tr) /\ UNCHANGED idVars
    \/ \E t \in Threads, tr \in TraceIds : report_event(t, tr) /\ UNCHANGED idVars
    \/ \E t \in Threads : should_report(t) /\ UNCHANGED idVars
    \/ \E t \in Threads : lock(t) /\ UNCHANGED idVars
    \/ \E t \in Threads : new_event(t) /\ UNCHANGED idVars
    \/ \E t \in Threads : add(t) /\ UNCHANGED idVars
    \/ \E t \in Threads : send(t) /\ UNCHANGED idVars
    \/ \E t \in Threads : client_panic(t) /\ UNCHANGED idVars
    \/ \E t \in Threads : check_res(t) /\ UNCHANGED idVars
    \/ \E t \in Threads : drop_guard(t) /\ UNCHANGED idVars

Spec == Init /\ [][Next]_vars

(***************************************************************************)
(* Claims about the sink, checked under Spec.                              *)
(***************************************************************************)
InCritical(t) == th[t].pc \in Critical

\* The sampling rule as the documentation states it, for a non-zero rate.
SampledIn(tr) == sample_rate = None \/ (sample_rate[1] # 0 /\ tr % sample_rate[1] = 0)

\* C1: at most one thread is between acquiring the client lock and releasing
\* it, and that thread is the one recorded as the owner of the guard.
C1_MutualExclusion ==
    /\ Cardinality({t \in Threads : InCritical(t)}) <= 1
    /\ \A t \in Threads : InCritical(t) <=> holder = t

\* C1 witness: one thread is inside new_event/add/send while another one,
\* sampled in as well, waits at lock().
C1_Witness ==
    \E t, u \in Threads :
        /\ t # u
        /\ th[t].pc = "send"
        /\ th[u].pc = "lock"

\* C2: should_report is a pure predicate: without a rate it answers true, with
\* a rate d >= 1 it answers true exactly when trace_id mod d = 0, so every call
\* with the same trace id gets the same answer, and no field of the sink changes.
C2_ShouldReportPure ==
    [][\A t \in Threads :
          (th[t].pc = "should_report" /\ th'[t] # th[t] /\ sample_rate # Some(0)) =>
             /\ th'[t].pc \in {"lock", "idle"}
             /\ (th'[t].pc = "lock") <=>
                   (sample_rate = None \/ th[t].trace % sample_rate[1] = 0)
             /\ (sample_rate = Some(1) => th'[t].pc = "lock")
             /\ (sample_rate = Some(2) => (th'[t].pc = "lock" <=> th[t].trace % 2 = 0))
             /\ UNCHANGED <<sample_rate, holder, poisoned, handed, stderr>>]_vars

\* C2 witness: under rate 2 an odd trace has been answered false and an even
\* trace true (it went on to be sent).
C2_Witness ==
    /\ sample_rate = Some(2)
    /\ 1 \in skipped
    /\ 0 \in handed

C4_ZeroRateRejected ==
    \A t \in Threads : ~(sample_rate = Some(0) /\ th[t].fault = "rem_by_zero")

\* C5: a send that returns Err is followed by one diagnostic on stderr and a
\* normal return: one send attempt, the guard released, the mutex not poisoned,
\* nothing more handed to the client.
C5_SendFailureNonFatal ==
    /\ [](\A t \in Threads :
            th[t].res = "Err" =>
               /\ th[t].pc \in {"check_res", "drop"}
               /\ th[t].sends = 1
               /\ th[t].fault = "none"
               /\ (th[t].pc = "drop" => th[t].diag = 1 /\ DiagLine \in stderr))
    /\ [][\A t \in Threads :
            (th[t].res = "Err" /\ th'[t] # th[t]) =>
               /\ th'[t].pc \in {"drop", "idle"}
               /\ handed' = handed
               /\ poisoned' = poisoned
               /\ (th[t].pc = "drop" => th'[t] = NoCall /\ holder' = 0)]_vars

\* C5 witness: a diagnostic has been written for a failed send, and a later
\* call holds the lock with its send answered Ok.
C5_Witness ==
    /\ DiagLine \in stderr
    /\ ~poisoned
    /\ \E t \in Threads : th[t].pc = "drop" /\ th[t].res = "Ok" /\ th[t].sends = 1

\* C10 as stated: once a thread has unwound while holding the client lock, no
\* thread is inside the construct-and-submit sequence ever again.
C10_NeverResumes ==
    (\E t \in Threads : th[t].fault = "client") =>
        (holder = 0 /\ \A u \in Threads : ~InCritical(u))

\* C10 amended: in the build on std::sync::Mutex, once a thread has unwound
\* while holding the lock the mutex is and stays poisoned, every lock() that
\* follows panics, and nothing more is created on or sent to the client.
C10_StdPoisonIsFinal ==
    /\ []((~use_parking_lot /\ \E t \in Threads : th[t].fault = "client") =>
            (poisoned /\ holder = 0 /\ \A u \in Threads : ~InCritical(u)))
    /\ [][(~use_parking_lot /\ poisoned) =>
            /\ poisoned'
            /\ handed' = handed
            /\ \A t \in Threads :
                  (th[t].pc = "lock" /\ th'[t] # th[t]) => th'[t] = Panicked("poisoned")]_vars

\* C10 witness: std build, one thread unwound inside the client and another
\* thread's later report panicked at lock().
C10_Witness ==
    /\ ~use_parking_lot
    /\ \E t, u \in Threads :
          /\ th[t].fault = "client"
          /\ th[u].fault = "poisoned"

(***************************************************************************)
(* The identifiers.  A text is a sequence of one-character strings, a u64  *)
(* is its 8 big-endian bytes, a u128 its 8 big-endian 16-bit limbs and a   *)
(* Uuid its 16 bytes.                                                      *)
(***************************************************************************)
DigitChars == <<"0", "1", "2", "3", "4", "5", "6", "7", "8", "9">>
HexLowerChars == DigitChars \o <<"a", "b", "c", "d", "e", "f">>
HexUpperChars == DigitChars \o <<"A", "B", "C", "D", "E", "F">>

\* Position of c in chars, 0 when absent.
IndexIn(c, chars) ==
    IF \E i \in 1..Len(chars) : chars[i] = c
      THEN CHOOSE i \in 1..Len(chars) : chars[i] = c
      ELSE 0

Ok(v) == [tag |-> "Ok", val |-> v, err |-> "none", kind |-> "none"]
Err(e, k) == [tag |-> "Err", val |-> <<>>, err |-> e, kind |-> k]
Panic == [tag |-> "Panic", val |-> <<>>, err |-> "none", kind |-> "none"]

IsZero(b) == \A i \in 1..Len(b) : b[i] = 0

\* b divided by ten: quotient bytes and remainder.
DivRem10(b) ==
    LET rem[i \in 0..Len(b)] == IF i = 0 THEN 0 ELSE (rem[i - 1] * 256 + b[i]) % 10
    IN [q |-> [i \in 1..Len(b) |-> (rem[i - 1] * 256 + b[i]) \div 10],
        r |-> rem[Len(b)]]

RECURSIVE fmt_digits(_)
fmt_digits(b) ==
    IF IsZero(b) THEN <<>>
    ELSE LET d == DivRem10(b) IN Append(fmt_digits(d.q), DigitChars[d.r + 1])

\* Display of a u64: its decimal digits, no sign, no leading zero.
u64_fmt(b) == IF IsZero(b) THEN <<"0">> ELSE fmt_digits(b)

\* b * 10 + d in 64 bits, with the overflow flag of checked_mul / checked_add.
MulAdd10(b, d) ==
    LET carry[i \in 1..(Len(b) + 1)] ==
            IF i = Len(b) + 1 THEN d ELSE (b[i] * 10 + carry[i + 1]) \div 256
    IN [v |-> [i \in 1..Len(b) |-> (b[i] * 10 + carry[i + 1]) % 256],
        overflow |-> carry[1] # 0]

U64Zero == [i \in 1..8 |-> 0]

RECURSIVE parse_digits(_, _, _)
parse_digits(acc, s, i) ==
    IF i > Len(s) THEN Ok(acc)
    ELSE LET d == IndexIn(s[i], DigitChars) - 1 IN
         IF d < 0 THEN Err("ParseIntError", "InvalidDigit")
         ELSE LET m == MulAdd10(acc, d) IN
              IF m.overflow THEN Err("ParseIntError", "PosOverflow")
              ELSE parse_digits(m.v, s, i + 1)

\* u64::from_str_radix(s, 10): an optional '+', then one or more digits.
u64_from_str_radix(s) ==
    IF s = <<>> THEN Err("ParseIntError", "Empty")
    ELSE IF Len(s) = 1 /\ s[1] \in {"+", "-"} THEN Err("ParseIntError", "InvalidDigit")
    ELSE parse_digits(U64Zero, IF s[1] = "+" THEN Tail(s) ELSE s, 1)

\* s.split(c): the fields between the occurrences of c, at least one.
RECURSIVE split(_, _)
split(s, c) ==
    IF \E i \in 1..Len(s) : s[i] = c
      THEN LET k == CHOOSE i \in 1..Len(s) : s[i] = c /\ \A j \in 1..(i - 1) : s[j] # c
           IN <<SubSeq(s, 1, k - 1)>> \o split(SubSeq(s, k + 1, Len(s)), c)
      ELSE <<s>>

\* tracing::Id::from_u64 panics on 0 (the id is a NonZeroU64).
Id_from_u64(u) == IF IsZero(u) THEN Panic ELSE Ok(u)

MkSpanId(tracing_id, instance_id) ==
    [type |-> "SpanId", tracing_id |-> tracing_id, instance_id |-> instance_id]

SpanId_from_str_count_first(s) ==
    LET iter == split(s, "-") IN
    IF Len(iter) < 2 THEN Err("FormatError", "none")
    ELSE LET r1 == u64_from_str_radix(iter[1])
             r2 == u64_from_str_radix(iter[2])
         IN IF r1.tag = "Err" THEN r1
            ELSE IF r2.tag = "Err" THEN r2
            ELSE IF Id_from_u64(r1.val).tag = "Panic" THEN Panic
            ELSE Ok(MkSpanId(r1.val, r2.val))

\* impl FromStr for SpanId
SpanId_from_str(s) ==
    LET iter == split(s, "-") IN
    IF Len(iter) < 1 THEN Err("FormatError", "none")
    ELSE LET r1 == u64_from_str_radix(iter[1]) IN
         IF r1.tag = "Err" THEN r1
         ELSE IF Len(iter) < 2 THEN Err("FormatError", "none")
         ELSE LET r2 == u64_from_str_radix(iter[2]) IN
              IF r2.tag = "Err" THEN r2
              ELSE IF Id_from_u64(r1.val).tag = "Panic" THEN Panic
              ELSE Ok(MkSpanId(r1.val, r2.val))

SpanId_fmt_swapped(id) ==
    u64_fmt(id.instance_id) \o <<"-">> \o u64_fmt(id.tracing_id)

\* impl Display for SpanId: "{}-{}" of tracing_id.into_u64() and instance_id
SpanId_fmt(id) ==
    u64_fmt(id.tracing_id) \o <<"-">> \o u64_fmt(id.instance_id)

\* Uuid::from_u128: the big-endian bytes of the number.
Uuid_from_u128(u) ==
    [i \in 1..16 |-> IF i % 2 = 1 THEN u[(i + 1) \div 2] \div 256
                     ELSE u[i \div 2] % 256]

\* Uuid::new_v4: random bytes with the version and variant bits set.
Uuid_new_v4(rnd) ==
    [i \in 1..16 |-> IF i = 7 THEN (rnd[i] % 16) + 64
                     ELSE IF i = 9 THEN (rnd[i] % 64) + 128
                     ELSE rnd[i]]

byte_hex(b) == <<HexLowerChars[(b \div 16) + 1], HexLowerChars[(b % 16) + 1]>>

RECURSIVE hex_of(_, _, _)
hex_of(u, from, to) ==
    IF from > to THEN <<>> ELSE byte_hex(u[from]) \o hex_of(u, from + 1, to)

\* uuid.to_hyphenated().encode_lower(buf): 8-4-4-4-12 lowercase hex digits.
encode_lower(u) ==
    hex_of(u, 1, 4) \o <<"-">> \o hex_of(u, 5, 6) \o <<"-">> \o hex_of(u, 7, 8)
        \o <<"-">> \o hex_of(u, 9, 10) \o <<"-">> \o hex_of(u, 11, 16)

hex_val(c) ==
    IF IndexIn(c, HexLowerChars) > 0 THEN IndexIn(c, HexLowerChars) - 1
    ELSE IndexIn(c, HexUpperChars) - 1

HyphenAt == {9, 14, 19, 24}

\* Uuid::parse_str: the hyphenated form or the simple form of 32 hex digits,
\* in either case of the letters.
Uuid_parse_str(s) ==
    LET h == IF Len(s) = 36
               THEN SubSeq(s, 1, 8) \o SubSeq(s, 10, 13) \o SubSeq(s, 15, 18)
                        \o SubSeq(s, 20, 23) \o SubSeq(s, 25, 36)
               ELSE s
    IN IF Len(s) \notin {32, 36} THEN Err("uuid::Error", "InvalidLength")
       ELSE IF Len(s) = 36 /\ \E k \in HyphenAt : s[k] # "-"
              THEN Err("uuid::Error", "InvalidGroups")
       ELSE IF \E i \in 1..32 : hex_val(h[i]) < 0
              THEN Err("uuid::Error", "InvalidCharacter")
       ELSE Ok([i \in 1..16 |-> hex_val(h[2 * i - 1]) * 16 + hex_val(h[2 * i])])

TraceIdUuid(u) == [type |-> "TraceId", inner |-> "Uuid", uuid |-> u, s |-> <<>>]
TraceIdString(s) == [type |-> "TraceId", inner |-> "String", uuid |-> <<>>, s |-> s]

\* impl From<u128> for TraceId
TraceId_from_u128(u) == TraceIdUuid(Uuid_from_u128(u))

\* impl From<&str> for TraceId, impl From<String> for TraceId
TraceId_from_string(s) == TraceIdString(s)

\* TraceId::new
TraceId_new(rnd) == TraceIdUuid(Uuid_new_v4(rnd))

\* impl FromStr for TraceId: a Uuid when the text parses as one, else the text.
TraceId_from_str(s) ==
    LET r == Uuid_parse_str(s) IN
    IF r.tag = "Ok" THEN Ok(TraceIdUuid(r.val)) ELSE Ok(TraceIdString(s))

\* impl Display for TraceId
TraceId_fmt(x) ==
    IF x.inner = "Uuid" THEN encode_lower(x.uuid) ELSE x.s

(***************************************************************************)
(* The inputs of the identifier pipeline.                                  *)
(***************************************************************************)
U64Samples ==
    {[i \in 1..8 |-> IF i > 8 - n THEN x ELSE 0] : n \in 0..8, x \in {1, 10, 255}}

U128Samples ==
    {[i \in 1..8 |-> IF i > 8 - n THEN x ELSE 0] : n \in 0..8, x \in {1, 43981, 65535}}

ByteSamples ==
    {[i \in 1..16 |-> IF i % 2 = 1 THEN x ELSE y] : x, y \in {0, 18, 171, 255}}

Alphabet == {"0", "1", "-", "+", "a", "b", "c"}

RECURSIVE TextsOfLen(_)
TextsOfLen(n) ==
    IF n = 0 THEN {<<>>}
    ELSE {Append(t, c) : t \in TextsOfLen(n - 1), c \in Alphabet}

Texts == UNION {TextsOfLen(n) : n \in 0..MaxLen}

U64MaxText == u64_fmt([i \in 1..8 |-> 255])
U64OverflowText ==
    <<"1", "8", "4", "4", "6", "7", "4", "4", "0", "7", "3", "7", "0", "9", "5", "5", "1", "6", "1", "6">>

SpanTexts ==
    Texts \cup {U64MaxText, U64OverflowText,
                U64MaxText \o <<"-">> \o U64MaxText,
                U64OverflowText \o <<"-", "1">>,
                <<"1", "-">> \o U64OverflowText,
                <<"1", "-", "2", "-", "3">>,
                <<"0", "-", "1", "-", "a">>,
                <<"0", "0", "7", "-", "+", "8">>}

to_upper(s) ==
    [i \in 1..Len(s) |-> IF IndexIn(s[i], HexLowerChars) > 0
                           THEN HexUpperChars[IndexIn(s[i], HexLowerChars)] ELSE s[i]]

UuidTexts ==
    UNION {{encode_lower(u), to_upper(encode_lower(u)), hex_of(u, 1, 16),
            Append(encode_lower(u), "0"), Tail(encode_lower(u)),
            [encode_lower(u) EXCEPT ![9] = "0"],
            [encode_lower(u) EXCEPT ![1] = "g"]} : u \in ByteSamples}

TraceTexts ==
    Texts \cup UuidTexts \cup {<<"a", " ", "s", "t", "r", "i", "n", "g">>}

Input(op, a, b, s) == [op |-> op, a |-> a, b |-> b, s |-> s]

Inputs ==
    {Input("SpanId", a, b, <<>>) : a \in U64Samples, b \in {U64Zero, [U64Zero EXCEPT ![8] = 1], [i \in 1..8 |-> 255], [U64Zero EXCEPT ![7] = 10]}}
    \cup {Input("SpanId_text", <<>>, <<>>, s) : s \in SpanTexts}
    \cup {Input("TraceId_u128", u, <<>>, <<>>) : u \in U128Samples}
    \cup {Input("TraceId_new", r, <<>>, <<>>) : r \in ByteSamples}
    \cup {Input("TraceId_string", <<>>, <<>>, s) : s \in TraceTexts}

SinkIdle ==
    /\ sample_rate = None
    /\ use_parking_lot = FALSE
    /\ holder = 0
    /\ poisoned = FALSE
    /\ th = [t \in Threads |-> NoCall]
    /\ handed = {}
    /\ skipped = {}
    /\ aborted = {}
    /\ stderr = {}

\* The text inputs go straight to from_str; the others are constructed first.
InitId ==
    /\ SinkIdle
    /\ raw \in Inputs
    /\ ident = <<>>
    /\ parsed = <<>>
    /\ text = IF raw.op = "SpanId_text" THEN raw.s ELSE <<>>
    /\ idpc = IF raw.op = "SpanId_text" THEN "text" ELSE "raw"

\* SpanId { tracing_id: tracing::Id::from_u64(ua), instance_id: ub }
SpanId_construct ==
    /\ idpc = "raw"
    /\ raw.op = "SpanId"
    /\ IF Id_from_u64(raw.a).tag = "Panic"
         THEN idpc' = "panicked" /\ ident' = ident
         ELSE idpc' = "built" /\ ident' = MkSpanId(raw.a, raw.b)
    /\ UNCHANGED <<raw, text, parsed>>

\* let trace_id: TraceId = u.into();
TraceId_construct_u128 ==
    /\ idpc = "raw"
    /\ raw.op = "TraceId_u128"
    /\ idpc' = "built"
    /\ ident' = TraceId_from_u128(raw.a)
    /\ UNCHANGED <<raw, text, parsed>>

\* let trace_id: TraceId = "a string".into();
TraceId_construct_string ==
    /\ idpc = "raw"
    /\ raw.op = "TraceId_string"
    /\ idpc' = "built"
    /\ ident' = TraceId_from_string(raw.s)
    /\ UNCHANGED <<raw, text, parsed>>

\* TraceId::new()
TraceId_construct_new ==
    /\ idpc = "raw"
    /\ raw.op = "TraceId_new"
    /\ idpc' = "built"
    /\ ident' = TraceId_new(raw.a)
    /\ UNCHANGED <<raw, text, parsed>>

\* let s = id.to_string();
to_string ==
    /\ idpc = "built"
    /\ text' = IF ident.type = "SpanId" THEN SpanId_fmt(ident) ELSE TraceId_fmt(ident)
    /\ idpc' = "text"
    /\ UNCHANGED <<raw, ident, parsed>>

\* let res = SpanId::from_str(&s);
SpanId_parse ==
    /\ idpc = "text"
    /\ raw.op \in {"SpanId", "SpanId_text"}
    /\ parsed' = SpanId_from_str(text)
    /\ idpc' = "parsed"
    /\ UNCHANGED <<raw, ident, text>>

\* let res = TraceId::from_str(&s);
TraceId_parse ==
    /\ idpc = "text"
    /\ raw.op \in {"TraceId_u128", "TraceId_new", "TraceId_string"}
    /\ parsed' = TraceId_from_str(text)
    /\ idpc' = "parsed"
    /\ UNCHANGED <<raw, ident, text>>

NextId ==
    \/ SpanId_construct /\ UNCHANGED sinkVars
    \/ TraceId_construct_u128 /\ UNCHANGED sinkVars
    \/ TraceId_construct_string /\ UNCHANGED sinkVars
    \/ TraceId_construct_new /\ UNCHANGED sinkVars
    \/ to_string /\ UNCHANGED sinkVars
    \/ SpanId_parse /\ UNCHANGED sinkVars
    \/ TraceId_parse /\ UNCHANGED sinkVars

SpecId == InitId /\ [][NextId]_vars

(***************************************************************************)
(* Claims about the identifiers, checked under SpecId.                     *)
(***************************************************************************)
NumFields(s) == 1 + Cardinality({i \in 1..Len(s) : s[i] = "-"})
Field(s, n) == split(s, "-")[n]
IsU64Text(f) == u64_from_str_radix(f).tag = "Ok"

\* C6 as stated: every TraceId, whether generated, converted from a u128 or
\* built from an arbitrary string, is parsed back from its text as an equal
\* TraceId, and from_str never fails.
C6_TraceIdRoundTrip ==
    (idpc = "parsed" /\ raw.op \in {"TraceId_u128", "TraceId_new", "TraceId_string"}) =>
        parsed = Ok(ident)

\* C7: a SpanId with local id >= 1 and instance id >= 1 renders as
\* "<local-id>-<instance-id>" and parses back to Ok of an equal SpanId.
C7_SpanIdRoundTrip ==
    (raw.op = "SpanId" /\ ~IsZero(raw.a) /\ ~IsZero(raw.b)) =>
        /\ idpc # "panicked"
        /\ idpc \in {"text", "parsed"} =>
              /\ NumFields(text) = 2
              /\ u64_from_str_radix(Field(text, 1)) = Ok(ident.tracing_id)
              /\ u64_from_str_radix(Field(text, 2)) = Ok(ident.instance_id)
        /\ idpc = "parsed" =>
              /\ parsed.tag = "Ok"
              /\ parsed.val.tracing_id = raw.a
              /\ parsed.val.instance_id = raw.b
              /\ parsed = Ok(ident)

\* C7 witness: the SpanId of local id u64::MAX and instance id 2560 has been
\* rendered and parsed back.
C7_Witness ==
    /\ idpc = "parsed"
    /\ raw.op = "SpanId"
    /\ raw.a = [i \in 1..8 |-> 255]
    /\ raw.b = [U64Zero EXCEPT ![7] = 10]
    /\ text = U64MaxText \o <<"-", "2", "5", "6", "0">>
    /\ parsed = Ok(ident)

\* C8 as stated: a text with fewer than two fields fails with FormatError, and
\* a text whose first or second field is no base-10 u64 fails with
\* ParseIntError.
C8_ErrorByFieldCount ==
    (idpc = "parsed" /\ raw.op = "SpanId_text") =>
        /\ NumFields(text) < 2 => parsed = Err("FormatError", "none")
        /\ (NumFields(text) >= 2
              /\ (~IsU64Text(Field(text, 1)) \/ ~IsU64Text(Field(text, 2)))) =>
                 (parsed.tag = "Err" /\ parsed.err = "ParseIntError")

\* C8 amended: the first field is parsed before the second is looked for: a
\* text whose first field is no u64 fails with ParseIntError even when it has
\* no separator; FormatError is the answer for a single field that is a u64;
\* a second field that is no u64 fails with ParseIntError.
C8_ErrorByFirstField ==
    (idpc = "parsed" /\ raw.op = "SpanId_text") =>
        /\ ~IsU64Text(Field(text, 1)) =>
              (parsed.tag = "Err" /\ parsed.err = "ParseIntError")
        /\ (IsU64Text(Field(text, 1)) /\ NumFields(text) < 2) =>
              parsed = Err("FormatError", "none")
        /\ (IsU64Text(Field(text, 1)) /\ NumFields(text) >= 2
              /\ ~IsU64Text(Field(text, 2))) =>
                 (parsed.tag = "Err" /\ parsed.err = "ParseIntError")
        /\ text = <<"a", "b", "c">> => parsed = Err("ParseIntError", "InvalidDigit")
        /\ text = <<"1", "-">> => parsed = Err("ParseIntError", "Empty")
        /\ text = <<"-", "1">> => parsed = Err("ParseIntError", "Empty")
        /\ text = <<"1">> => parsed = Err("FormatError", "none")

\* C8 witness: "abc" has been parsed and was answered with a ParseIntError.
C8_Witness ==
    /\ idpc = "parsed"
    /\ raw.op = "SpanId_text"
    /\ text = <<"a", "b", "c">>
    /\ parsed.err = "ParseIntError"

\* C9 as stated: a text whose local-id field is 0, such as "0-1", gets a result
\* value from from_str; the call does not fault.
C9_ZeroLocalIdParses ==
    (idpc = "parsed" /\ raw.op = "SpanId_text" /\ NumFields(text) >= 2
        /\ u64_from_str_radix(Field(text, 1)) = Ok(U64Zero)
        /\ IsU64Text(Field(text, 2))) =>
            parsed.tag \in {"Ok", "Err"}

====
